---- MODULE Spec2Model ----
(***************************************************************************)
(* A model of src/src/App.tsx, the PDF marketing image generator: the      *)
(* composition engine generateMarketingImage, the ingestion handler        *)
(* onDrop, the URL loader handlePdfUrlSubmit, handleGenerateImages,        *)
(* handlePageSelection and removePdf, run as cooperatively scheduled       *)
(* asynchronous operations over the component's state.                     *)
(*                                                                         *)
(* Numbers: JavaScript numbers are modelled as exact rationals (records    *)
(* [n, d] in lowest terms); IEEE-754 rounding is not modelled.             *)
(***************************************************************************)
EXTENDS Integers, Sequences, FiniteSets, TLC

(***************************************************************************)
(* Program constants                                                       *)
(***************************************************************************)
CanvasWidth == 1280
CanvasHeight == 720
DefaultPageSize == 400
DefaultTiltAngle == 15
DefaultOverlap == 50
PageSizeMin == 100
PageSizeMax == 600
OverlapMin == 0
OverlapMax == 300
TiltMin == 0
TiltMax == 45
DEFAULT_BACKGROUND == "default-background"
NULL == "null"

(***************************************************************************)
(* Bounds of the model                                                     *)
(***************************************************************************)
\* how far around each sampled layout value the layout inputs range
LayoutSpan == 1
\* largest background width and height, in pixels
MaxBgDim == 36
\* largest page count of a document given to the default-selection rule
MaxSelPages == 5

(***************************************************************************)
(* JavaScript number arithmetic, exact: a number is [n |-> numerator,      *)
(* d |-> denominator] with d > 0, in lowest terms.                         *)
(***************************************************************************)
Abs(x) == IF x < 0 THEN -x ELSE x

RECURSIVE GCD(_, _)
GCD(a, b) == IF b = 0 THEN a ELSE GCD(b, a % b)

Norm(n, d) ==
    LET s == IF d < 0 THEN -1 ELSE 1
        g == GCD(Abs(n), Abs(d))
    IN  [n |-> (s * n) \div g, d |-> (s * d) \div g]

RInt(x) == [n |-> x, d |-> 1]
RAdd(a, b) == Norm(a.n * b.d + b.n * a.d, a.d * b.d)
RSub(a, b) == Norm(a.n * b.d - b.n * a.d, a.d * b.d)
RMul(a, b) == Norm(a.n * b.n, a.d * b.d)
RDiv(a, b) == Norm(a.n * b.d, a.d * b.n)
RNeg(a) == [n |-> -a.n, d |-> a.d]
RGt(a, b) == a.n * b.d > b.n * a.d
RGe(a, b) == a.n * b.d >= b.n * a.d
RLe(a, b) == a.n * b.d <= b.n * a.d

(***************************************************************************)
(* generateMarketingImage: the background's cover-fit rectangle            *)
(***************************************************************************)
\* a plausible slip: the comparison of the aspect ratios inverted
BackgroundFit_Inverted(w, h) ==
    LET canvasAspect == RDiv(RInt(CanvasWidth), RInt(CanvasHeight))
        imgAspect == RDiv(RInt(w), RInt(h))
        wideW == RMul(RInt(w), RDiv(RInt(CanvasHeight), RInt(h)))
        tallH == RMul(RInt(h), RDiv(RInt(CanvasWidth), RInt(w)))
    IN  IF RGt(canvasAspect, imgAspect)
        THEN [drawWidth |-> wideW, drawHeight |-> RInt(CanvasHeight),
              offsetX |-> RDiv(RSub(RInt(CanvasWidth), wideW), RInt(2)),
              offsetY |-> RInt(0)]
        ELSE [drawWidth |-> RInt(CanvasWidth), drawHeight |-> tallH,
              offsetX |-> RInt(0),
              offsetY |-> RDiv(RSub(RInt(CanvasHeight), tallH), RInt(2))]

\* a plausible slip: the scaled image aligned to the top-left corner, the
\* centering offset left out
BackgroundFit_NotCentered(w, h) ==
    LET canvasAspect == RDiv(RInt(CanvasWidth), RInt(CanvasHeight))
        imgAspect == RDiv(RInt(w), RInt(h))
        wideW == RMul(RInt(w), RDiv(RInt(CanvasHeight), RInt(h)))
        tallH == RMul(RInt(h), RDiv(RInt(CanvasWidth), RInt(w)))
    IN  IF RGt(imgAspect, canvasAspect)
        THEN [drawWidth |-> wideW, drawHeight |-> RInt(CanvasHeight),
              offsetX |-> RInt(0), offsetY |-> RInt(0)]
        ELSE [drawWidth |-> RInt(CanvasWidth), drawHeight |-> tallH,
              offsetX |-> RInt(0), offsetY |-> RInt(0)]

BackgroundFit(w, h) ==
    LET canvasAspect == RDiv(RInt(CanvasWidth), RInt(CanvasHeight))
        imgAspect == RDiv(RInt(w), RInt(h))
        \* drawWidth = bgImg.width * (canvas.height / bgImg.height)
        wideW == RMul(RInt(w), RDiv(RInt(CanvasHeight), RInt(h)))
        \* drawHeight = bgImg.height * (canvas.width / bgImg.width)
        tallH == RMul(RInt(h), RDiv(RInt(CanvasWidth), RInt(w)))
    IN  IF RGt(imgAspect, canvasAspect)
        THEN [drawWidth |-> wideW, drawHeight |-> RInt(CanvasHeight),
              offsetX |-> RDiv(RSub(RInt(CanvasWidth), wideW), RInt(2)),
              offsetY |-> RInt(0)]
        ELSE [drawWidth |-> RInt(CanvasWidth), drawHeight |-> tallH,
              offsetX |-> RInt(0),
              offsetY |-> RDiv(RSub(RInt(CanvasHeight), tallH), RInt(2))]

(***************************************************************************)
(* generateMarketingImage: the three slots' anchors and angles.  An angle  *)
(* is kept as the rational r of r * Math.PI radians.                       *)
(***************************************************************************)
\* a plausible slip: the overlap applied to the center slot as well
SlotPositions_OverlapCenter(ps, tilt, ov) ==
    LET pageWidth == RInt(ps)
        pageHeight == RMul(RInt(ps), [n |-> 3, d |-> 2])
        centerX == RDiv(RInt(CanvasWidth), RInt(2))
        centerY == RSub(RDiv(RInt(CanvasHeight), RInt(2)), RDiv(pageHeight, RInt(2)))
    IN  << [angle |-> RDiv(RNeg(RInt(tilt)), RInt(180)),
            x |-> RAdd(RSub(centerX, RMul(pageWidth, [n |-> 3, d |-> 2])), RInt(ov)),
            y |-> centerY],
           [angle |-> RInt(0),
            x |-> RAdd(RSub(centerX, RDiv(pageWidth, RInt(2))), RInt(ov)),
            y |-> centerY],
           [angle |-> RDiv(RInt(tilt), RInt(180)),
            x |-> RSub(RAdd(centerX, RDiv(pageWidth, RInt(2))), RInt(ov)),
            y |-> centerY] >>

SlotPositions(ps, tilt, ov) ==
    LET pageWidth == RInt(ps)
        \* pageHeight = pageSize * 1.5
        pageHeight == RMul(RInt(ps), [n |-> 3, d |-> 2])
        centerX == RDiv(RInt(CanvasWidth), RInt(2))
        centerY == RSub(RDiv(RInt(CanvasHeight), RInt(2)), RDiv(pageHeight, RInt(2)))
    IN  << [angle |-> RDiv(RNeg(RInt(tilt)), RInt(180)),
            x |-> RAdd(RSub(centerX, RMul(pageWidth, [n |-> 3, d |-> 2])), RInt(ov)),
            y |-> centerY],
           [angle |-> RInt(0),
            x |-> RSub(centerX, RDiv(pageWidth, RInt(2))),
            y |-> centerY],
           [angle |-> RDiv(RInt(tilt), RInt(180)),
            x |-> RSub(RAdd(centerX, RDiv(pageWidth, RInt(2))), RInt(ov)),
            y |-> centerY] >>

(***************************************************************************)
(* onDrop: the page list a document's rasterization produces, and the      *)
(* default selection stored with it                                        *)
(***************************************************************************)
\* pages 1..numPages in order, without those whose canvas gave no 2d context
RECURSIVE RasterizePages(_, _, _)
RasterizePages(i, numPages, omitted) ==
    IF i > numPages THEN << >>
    ELSE IF i \in omitted THEN RasterizePages(i + 1, numPages, omitted)
    ELSE << i >> \o RasterizePages(i + 1, numPages, omitted)

\* a plausible slip: the right slot falling back to page 1 below three pages
DefaultSelection_RightOne(pages) ==
    [left |-> IF Len(pages) >= 2 THEN 2 ELSE 1,
     center |-> 1,
     right |-> IF Len(pages) >= 3 THEN 3 ELSE 1]

DefaultSelection(pages) ==
    [left |-> IF Len(pages) >= 2 THEN 2 ELSE 1,
     center |-> 1,
     right |-> IF Len(pages) >= 3 THEN 3 ELSE (IF Len(pages) >= 2 THEN 2 ELSE 1)]

(***************************************************************************)
(* The component's state and its asynchronous operations                   *)
(***************************************************************************)
\* user events (drops, clicks, selections, edits of the URL) in one session
\* of a user who acts while operations are in flight
MaxEvents == 2
\* failures (a file that is no PDF or does not decode, a page without a 2d
\* context, an image that does not load) in such a session
MaxFaults == 1
\* the same for a user who waits for every operation to end before acting
MaxPatientEvents == 3
MaxPatientFaults == 2
\* documents ingested in one session, and files in one dropped batch
MaxDocs == 2
\* pages of a dropped document
MaxPages == 2

\* an operation in flight holds one of these; each takes a user event to start
Procs == 1 .. MaxEvents
FileNames == {"a.pdf", "downloaded.pdf"}
PdfType == "application/pdf"
\* the width and height an image source decodes to
ImageSize(src) == [w |-> 1920, h |-> 1080]
\* position: 'left' | 'center' | 'right', in the order of the array at line 97
Positions == << "left", "center", "right" >>
\* for (const i of [0, 2, 1]), as indexes from 1
DrawOrder == << 1, 3, 2 >>
\* a selection slot holding null (a falsy pageNum)
NullPage == 0

VARIABLES
    pdfFiles,         \* useState<PDFFile[]>: the list, as references into heap
    heap,             \* the PDFFile objects ever created; a reference is an index
    marketingImages,  \* useState<{[key: string]: string}>: file name -> image
    loading,          \* useState(false)
    error,            \* useState<string | null>: << >> is null
    pdfUrl,           \* useState(''): the URL input
    backgroundImage,  \* useState<string | null>(DEFAULT_BACKGROUND)
    pageSize,         \* useState(400)
    tiltAngle,        \* useState(15)
    overlap,          \* useState(50)
    canvas,           \* marketingCanvasRef.current: the draws since the last clear
    proc,             \* the operations in flight: locals and position of each
    events,           \* user events left to the session
    faults,           \* failures left to the session
    patient,          \* whether the user acts only when nothing is in flight
    probe             \* a pure function's input and, once applied, its result

vars == << pdfFiles, heap, marketingImages, loading, error, pdfUrl,
           backgroundImage, pageSize, tiltAngle, overlap, canvas, proc,
           events, faults, patient, probe >>

params == << backgroundImage, pageSize, tiltAngle, overlap >>
budget == << events, faults, patient >>

NoProbe == [f |-> "none"]

IdleProc ==
    [op |-> "idle", pc |-> "idle", viaUrl |-> FALSE,
     acceptedFiles |-> << >>, k |-> 0, outcome |-> << >>,
     newPdfFiles |-> << >>, pdfFiles |-> << >>, newImages |-> << >>,
     results |-> << >>,
     backgroundImage |-> NULL, pageSize |-> 0, tiltAngle |-> 0, overlap |-> 0,
     pdfFile |-> 0, pageImages |-> << >>, slot |-> 0, drawn |-> << >>,
     imageUrl |-> << >>, status |-> << >>, message |-> << >>, proxied |-> FALSE]

\* positions where an operation continues without returning to the event
\* loop (a resumed await of an already settled promise, or straight-line
\* code): no other operation and no user event runs in between
MicroPcs ==
    { "loopFile", "append", "genLoop", "slotLoop", "genReturn", "genThrow",
      "commit", "checkResponse", "urlCatch", "urlDone" }

\* no other operation is in the middle of a synchronous stretch
Turn(p) == \A q \in Procs \ {p} : proc[q].pc \notin MicroPcs
Quiet == \A q \in Procs : proc[q].pc \notin MicroPcs

\* the documents an operation in flight may still create
Pending(pr) ==
    IF pr.pc \in { "awaitDirect", "awaitProxy", "checkResponse", "awaitBlob" }
    THEN 1
    ELSE IF pr.pc \in { "loopFile", "ingest" }
    THEN Cardinality({ i \in pr.k .. Len(pr.acceptedFiles) :
                           pr.acceptedFiles[i].type = "application/pdf" })
    ELSE 0

RECURSIVE SumPending(_)
SumPending(ps) ==
    IF ps = {} THEN 0
    ELSE LET q == CHOOSE x \in ps : TRUE IN Pending(proc[q]) + SumPending(ps \ {q})

\* n more documents stay within the session's bound
Room(n) == Len(heap) + SumPending(Procs) + n <= MaxDocs

\* the user may act: between two tasks of the event loop, and for a patient
\* user once every operation has ended
MayAct ==
    /\ Quiet
    /\ events > 0
    /\ patient => \A q \in Procs : proc[q].op = "idle"

\* a new operation takes the first free slot
FreeSlot(p) ==
    /\ proc[p].op = "idle"
    /\ \A q \in Procs : q < p => proc[q].op # "idle"
    /\ MayAct

Set(p, r) == [proc EXCEPT ![p] = r]

\* the closure of generateMarketingImage an operation started with
Captured(pr) ==
    [pr EXCEPT !.backgroundImage = backgroundImage, !.pageSize = pageSize,
               !.tiltAngle = tiltAngle, !.overlap = overlap]

\* {...a, ...b}
Merge(a, b) ==
    [n \in (DOMAIN a) \cup (DOMAIN b) |-> IF n \in DOMAIN b THEN b[n] ELSE a[n]]

\* delete m[key]
Delete(m, key) == [n \in (DOMAIN m) \ {key} |-> m[n]]

\* m[key] = value
Put(m, key, value) ==
    [n \in (DOMAIN m) \cup {key} |-> IF n = key THEN value ELSE m[n]]

InitState ==
    /\ pdfFiles = << >>
    /\ heap = << >>
    /\ marketingImages = << >>
    /\ loading = FALSE
    /\ error = << >>
    /\ pdfUrl = ""
    /\ backgroundImage = DEFAULT_BACKGROUND
    /\ pageSize = DefaultPageSize
    /\ tiltAngle = DefaultTiltAngle
    /\ overlap = DefaultOverlap
    /\ canvas = << >>
    /\ proc = [p \in Procs |-> IdleProc]

\* the session of a user who acts at any time
Init ==
    /\ InitState
    /\ events = MaxEvents
    /\ faults = MaxFaults
    /\ patient = FALSE
    /\ probe = NoProbe

\* the session of a user who waits for every operation to end
InitPatient ==
    /\ InitState
    /\ events = MaxPatientEvents
    /\ faults = MaxPatientFaults
    /\ patient = TRUE
    /\ probe = NoProbe

(***************************************************************************)
(* onDrop: ingestion of a dropped batch                                    *)
(***************************************************************************)
Files ==
    [name : FileNames, type : {PdfType}] \cup [name : {"notes.txt"}, type : {"text/plain"}]
Batches == UNION { [1 .. n -> Files] : n \in 0 .. MaxDocs }

\* the files of a batch that are not PDFs: each counts as a failure
NotPdfs(files) == Cardinality({ i \in 1 .. Len(files) : files[i].type # PdfType })

\* the locals of onDrop(acceptedFiles) entered by an operation
OnDropEntry(pr, files) ==
    [pr EXCEPT !.pc = "loopFile", !.acceptedFiles = files, !.k = 1,
               !.outcome = << >>, !.newPdfFiles = << >>]

\* a drop on the PDF drop zone, which is never disabled
OnDrop(p, files) ==
    /\ FreeSlot(p)
    /\ Room(Cardinality({ i \in 1 .. Len(files) : files[i].type = PdfType }))
    /\ NotPdfs(files) <= faults
    /\ IF Len(files) = 0
       THEN UNCHANGED << proc, loading, error, budget >>
       ELSE /\ loading' = TRUE
            /\ error' = << >>
            /\ events' = events - 1
            /\ faults' = faults - NotPdfs(files)
            /\ UNCHANGED patient
            /\ proc' = Set(p, OnDropEntry(
                   Captured([IdleProc EXCEPT !.op = "onDrop"]), files))
    /\ UNCHANGED << pdfFiles, heap, marketingImages, pdfUrl, params, canvas, probe >>

\* for (const file of acceptedFiles): the type test, up to the first await
LoopFile(p) ==
    LET pr == proc[p] IN
    /\ pr.pc = "loopFile"
    /\ IF pr.k > Len(pr.acceptedFiles)
       THEN /\ proc' = Set(p, [pr EXCEPT !.pc = "append"])
            /\ UNCHANGED error
       ELSE IF pr.acceptedFiles[pr.k].type # PdfType
       THEN /\ error' = << "One or more files are not PDFs." >>
            /\ proc' = Set(p, [pr EXCEPT !.k = pr.k + 1,
                                         !.outcome = Append(pr.outcome, "notPdf")])
       ELSE /\ proc' = Set(p, [pr EXCEPT !.pc = "ingest"])
            /\ UNCHANGED error
    /\ UNCHANGED << pdfFiles, heap, marketingImages, loading, pdfUrl, params,
                    canvas, budget, probe >>

\* the document decoded and every page rasterized, but for the pages whose
\* canvas had no 2d context
IngestOk(p, numPages, omitted) ==
    LET pr == proc[p]
        pages == RasterizePages(1, numPages, omitted)
        doc == [name |-> pr.acceptedFiles[pr.k].name, pages |-> pages,
                selectedPages |-> DefaultSelection(pages)]
    IN
    /\ pr.pc = "ingest"
    /\ Turn(p)
    /\ Len(heap) < MaxDocs
    /\ Cardinality(omitted) <= faults
    /\ faults' = faults - Cardinality(omitted)
    /\ heap' = Append(heap, doc)
    /\ proc' = Set(p, [pr EXCEPT !.pc = "loopFile", !.k = pr.k + 1,
                                 !.outcome = Append(pr.outcome, "ok"),
                                 !.newPdfFiles = Append(pr.newPdfFiles, Len(heap) + 1)])
    /\ UNCHANGED << pdfFiles, marketingImages, loading, error, pdfUrl, params,
                    canvas, events, patient, probe >>

\* a plausible slip: a file's failure ending the batch (the rest is dropped)
IngestFailed_Abort(p) ==
    LET pr == proc[p] IN
    /\ pr.pc = "ingest"
    /\ Turn(p)
    /\ faults > 0
    /\ faults' = faults - 1
    /\ error' = << "Failed to process", pr.acceptedFiles[pr.k].name >>
    /\ proc' = Set(p, [pr EXCEPT !.pc = "loopFile",
                                 !.k = Len(pr.acceptedFiles) + 1,
                                 !.outcome = Append(pr.outcome, "failed")])
    /\ UNCHANGED << pdfFiles, heap, marketingImages, loading, pdfUrl, params,
                    canvas, events, patient, probe >>

\* arrayBuffer, getDocument, getPage or render rejected: the catch of line 187
IngestFailed(p) ==
    LET pr == proc[p] IN
    /\ pr.pc = "ingest"
    /\ Turn(p)
    /\ faults > 0
    /\ faults' = faults - 1
    /\ error' = << "Failed to process", pr.acceptedFiles[pr.k].name >>
    /\ proc' = Set(p, [pr EXCEPT !.pc = "loopFile", !.k = pr.k + 1,
                                 !.outcome = Append(pr.outcome, "failed")])
    /\ UNCHANGED << pdfFiles, heap, marketingImages, loading, pdfUrl, params,
                    canvas, events, patient, probe >>

\* setPdfFiles(prev => [...prev, ...newPdfFiles]) and the test of line 196
AppendFiles(p) ==
    LET pr == proc[p] IN
    /\ pr.pc = "append"
    /\ pdfFiles' = pdfFiles \o pr.newPdfFiles
    /\ proc' = Set(p, [pr EXCEPT !.pc = IF Len(pr.newPdfFiles) > 0
                                        THEN "genLoop" ELSE "commit",
                                 !.k = 1, !.newImages = << >>, !.results = << >>])
    /\ UNCHANGED << heap, marketingImages, loading, error, pdfUrl, params,
                    canvas, budget, probe >>

(***************************************************************************)
(* generateMarketingImage, run for one document by onDrop or by            *)
(* handleGenerateImages                                                    *)
(***************************************************************************)
\* the documents the operation's loop composes
RunList(pr) == IF pr.op = "generate" THEN pr.pdfFiles ELSE pr.newPdfFiles

\* pageImages: per position, the selected page's image (named by its
\* pageNum), or null when nothing is selected or no page has that number
PageImages(pdfFile) ==
    [i \in 1 .. 3 |->
        LET pageNum == pdfFile.selectedPages[Positions[i]] IN
        IF pageNum = NullPage THEN NullPage
        ELSE IF \E j \in 1 .. Len(pdfFile.pages) : pdfFile.pages[j] = pageNum
             THEN pageNum
             ELSE NullPage]

\* ctx.drawImage(bgImg, offsetX, offsetY, drawWidth, drawHeight)
BackgroundDraw(pr) ==
    LET size == ImageSize(pr.backgroundImage) IN
    [what |-> "background", image |-> << pr.backgroundImage >>,
     at |-> BackgroundFit(size.w, size.h)]

\* save, translate, rotate, drawImage, restore for the slot at index i
PageDraw(pr, i) ==
    LET pos == SlotPositions(pr.pageSize, pr.tiltAngle, pr.overlap)[i]
        pageWidth == RInt(pr.pageSize)
        pageHeight == RMul(RInt(pr.pageSize), [n |-> 3, d |-> 2])
    IN  [what |-> Positions[i], image |-> << pr.pdfFile, pr.pageImages[i] >>,
         at |-> [translate |-> << RAdd(pos.x, RDiv(pageWidth, RInt(2))),
                                  RAdd(pos.y, RDiv(pageHeight, RInt(2))) >>,
                 rotate |-> pos.angle,
                 rect |-> << RDiv(RNeg(pageWidth), RInt(2)),
                             RDiv(RNeg(pageHeight), RInt(2)),
                             pageWidth, pageHeight >>]]

\* a plausible slip: the slots drawn in array order, the center page second
SlotAt_ArrayOrder(n) == n

\* the slot index the n-th turn of the draw loop visits
SlotAt(n) == DrawOrder[n]

\* a plausible slip: the canvas neither resized nor cleared before a run
GenLoop_NoClear(p) ==
    LET pr == proc[p] IN
    /\ pr.pc = "genLoop"
    /\ IF pr.k > Len(RunList(pr))
       THEN /\ proc' = Set(p, [pr EXCEPT !.pc = "commit"])
            /\ UNCHANGED canvas
       ELSE /\ UNCHANGED canvas
            /\ LET d == RunList(pr)[pr.k] IN
               proc' = Set(p,
                   IF pr.backgroundImage # NULL
                   THEN [pr EXCEPT !.pc = "awaitBg", !.pdfFile = d,
                                   !.slot = 0, !.drawn = << >>,
                                   !.pageImages = << >>]
                   ELSE [pr EXCEPT !.pc = "slotLoop", !.pdfFile = d,
                                   !.slot = 1, !.drawn = << >>,
                                   !.pageImages = PageImages(heap[d])])
    /\ UNCHANGED << pdfFiles, heap, marketingImages, loading, error, pdfUrl,
                    params, budget, probe >>

\* the loop of onDrop (line 198) or handleGenerateImages (line 280) calls
\* generateMarketingImage for its next document: the canvas is resized and
\* cleared, and the background starts to load
GenLoop(p) ==
    LET pr == proc[p] IN
    /\ pr.pc = "genLoop"
    /\ IF pr.k > Len(RunList(pr))
       THEN /\ proc' = Set(p, [pr EXCEPT !.pc = "commit"])
            /\ UNCHANGED canvas
       ELSE /\ canvas' = << >>
            /\ LET d == RunList(pr)[pr.k] IN
               proc' = Set(p,
                   IF pr.backgroundImage # NULL
                   THEN [pr EXCEPT !.pc = "awaitBg", !.pdfFile = d,
                                   !.slot = 0, !.drawn = << >>,
                                   !.pageImages = << >>]
                   ELSE [pr EXCEPT !.pc = "slotLoop", !.pdfFile = d,
                                   !.slot = 1, !.drawn = << >>,
                                   !.pageImages = PageImages(heap[d])])
    /\ UNCHANGED << pdfFiles, heap, marketingImages, loading, error, pdfUrl,
                    params, budget, probe >>

\* bgImg.onload: the background is drawn, then the selection is read
BgLoaded(p) ==
    LET pr == proc[p] IN
    /\ pr.pc = "awaitBg"
    /\ Turn(p)
    /\ canvas' = Append(canvas, BackgroundDraw(pr))
    /\ proc' = Set(p, [pr EXCEPT !.pc = "slotLoop", !.slot = 1,
                                 !.drawn = Append(pr.drawn, "background"),
                                 !.pageImages = PageImages(heap[pr.pdfFile])])
    /\ UNCHANGED << pdfFiles, heap, marketingImages, loading, error, pdfUrl,
                    params, budget, probe >>

\* bgImg.onerror: the promise rejects and generateMarketingImage rethrows
BgError(p) ==
    LET pr == proc[p] IN
    /\ pr.pc = "awaitBg"
    /\ Turn(p)
    /\ faults > 0
    /\ faults' = faults - 1
    /\ proc' = Set(p, [pr EXCEPT !.pc = "genThrow"])
    /\ UNCHANGED << pdfFiles, heap, marketingImages, loading, error, pdfUrl,
                    params, canvas, events, patient, probe >>

\* for (const i of [0, 2, 1]): skip an empty slot, load an occupied one, and
\* after the last return canvas.toDataURL('image/png')
SlotLoop(p) ==
    LET pr == proc[p] IN
    /\ pr.pc = "slotLoop"
    /\ proc' = Set(p,
           IF pr.slot > 3
           THEN [pr EXCEPT !.pc = "genReturn", !.imageUrl = << canvas >>]
           ELSE IF pr.pageImages[SlotAt(pr.slot)] = NullPage
           THEN [pr EXCEPT !.slot = pr.slot + 1]
           ELSE [pr EXCEPT !.pc = "awaitPage"])
    /\ UNCHANGED << pdfFiles, heap, marketingImages, loading, error, pdfUrl,
                    params, canvas, budget, probe >>

\* img.onload: the page is drawn at its slot
PageLoaded(p) ==
    LET pr == proc[p]
        i == SlotAt(pr.slot)
    IN
    /\ pr.pc = "awaitPage"
    /\ Turn(p)
    /\ canvas' = Append(canvas, PageDraw(pr, i))
    /\ proc' = Set(p, [pr EXCEPT !.pc = "slotLoop", !.slot = pr.slot + 1,
                                 !.drawn = Append(pr.drawn, Positions[i])])
    /\ UNCHANGED << pdfFiles, heap, marketingImages, loading, error, pdfUrl,
                    params, budget, probe >>

\* img.onerror
PageError(p) ==
    LET pr == proc[p] IN
    /\ pr.pc = "awaitPage"
    /\ Turn(p)
    /\ faults > 0
    /\ faults' = faults - 1
    /\ proc' = Set(p, [pr EXCEPT !.pc = "genThrow"])
    /\ UNCHANGED << pdfFiles, heap, marketingImages, loading, error, pdfUrl,
                    params, canvas, events, patient, probe >>

\* the caller resumes with the image: newImages[pdfFile.file.name] = imageUrl
GenReturn(p) ==
    LET pr == proc[p] IN
    /\ pr.pc = "genReturn"
    /\ proc' = Set(p, [pr EXCEPT
           !.pc = "genLoop", !.k = pr.k + 1,
           !.newImages = Put(pr.newImages, heap[pr.pdfFile].name, pr.imageUrl),
           !.results = Append(pr.results, "ok")])
    /\ UNCHANGED << pdfFiles, heap, marketingImages, loading, error, pdfUrl,
                    params, canvas, budget, probe >>

\* the caller resumes with the exception: onDrop catches it (line 204) and
\* goes on; handleGenerateImages has no catch, and its promise rejects
GenThrow(p) ==
    LET pr == proc[p] IN
    /\ pr.pc = "genThrow"
    /\ IF pr.op = "generate"
       THEN /\ proc' = Set(p, IdleProc)
            /\ UNCHANGED error
       ELSE /\ error' = << "Failed to generate marketing image for",
                           heap[pr.pdfFile].name >>
            /\ proc' = Set(p, [pr EXCEPT !.pc = "genLoop", !.k = pr.k + 1,
                                         !.results = Append(pr.results, "failed")])
    /\ UNCHANGED << pdfFiles, heap, marketingImages, loading, pdfUrl, params,
                    canvas, budget, probe >>

\* the end of the operation: setMarketingImages and setLoading(false)
Commit(p) ==
    LET pr == proc[p] IN
    /\ pr.pc = "commit"
    /\ marketingImages' =
           IF pr.op = "generate" THEN pr.newImages
           ELSE IF Len(pr.newPdfFiles) > 0 THEN Merge(marketingImages, pr.newImages)
           ELSE marketingImages
    /\ loading' = FALSE
    /\ proc' = Set(p, IF pr.viaUrl THEN [pr EXCEPT !.pc = "urlDone"] ELSE IdleProc)
    /\ UNCHANGED << pdfFiles, heap, error, pdfUrl, params, canvas, budget, probe >>

(***************************************************************************)
(* handleGenerateImages                                                    *)
(***************************************************************************)
\* the Generate button: rendered when the list is not empty, disabled while
\* loading
HandleGenerateImages(p) ==
    /\ FreeSlot(p)
    /\ ~loading
    /\ Len(pdfFiles) > 0
    /\ loading' = TRUE
    /\ events' = events - 1
    /\ UNCHANGED << faults, patient >>
    /\ proc' = Set(p, Captured([IdleProc EXCEPT !.op = "generate", !.pc = "genLoop",
                                                !.pdfFiles = pdfFiles, !.k = 1]))
    /\ UNCHANGED << pdfFiles, heap, marketingImages, error, pdfUrl, params,
                    canvas, probe >>

(***************************************************************************)
(* handlePageSelection and removePdf                                       *)
(***************************************************************************)
\* a Select of document pdfIndex (from 1) picks one of its MenuItems: the
\* copied list holds the same PDFFile objects, and the object is assigned to
HandlePageSelection(pdfIndex, position, pageNum) ==
    /\ MayAct
    /\ events' = events - 1
    /\ pdfIndex \in 1 .. Len(pdfFiles)
    /\ \E j \in 1 .. Len(heap[pdfFiles[pdfIndex]].pages) :
           heap[pdfFiles[pdfIndex]].pages[j] = pageNum
    /\ heap' = [heap EXCEPT ![pdfFiles[pdfIndex]].selectedPages[position] = pageNum]
    /\ UNCHANGED << pdfFiles, marketingImages, loading, error, pdfUrl, params,
                    canvas, proc, faults, patient, probe >>

\* prev.filter((_, i) => i !== index), index counted from 0
Without(list, index) ==
    LET keep == { i \in 1 .. Len(list) : i - 1 # index }
        F[n \in 0 .. Len(list)] ==
            IF n = 0 THEN << >>
            ELSE IF n \in keep THEN Append(F[n - 1], list[n]) ELSE F[n - 1]
    IN  F[Len(list)]

\* a plausible slip: the list filtered, the keyed output left behind
RemovePdf_KeepOutput(index) ==
    /\ MayAct
    /\ events' = events - 1
    /\ pdfFiles' = Without(pdfFiles, index)
    /\ UNCHANGED << heap, marketingImages, loading, error, pdfUrl, params, canvas,
                    proc, faults, patient, probe >>

\* removePdf(index), index counted from 0
RemovePdf(index) ==
    /\ MayAct
    /\ events' = events - 1
    /\ pdfFiles' = Without(pdfFiles, index)
    /\ marketingImages' =
           IF index >= 0 /\ index < Len(pdfFiles)
           THEN Delete(marketingImages, heap[pdfFiles[index + 1]].name)
           ELSE marketingImages
    /\ UNCHANGED << heap, loading, error, pdfUrl, params, canvas, proc, faults, patient, probe >>

(***************************************************************************)
(* handlePdfUrlSubmit                                                      *)
(***************************************************************************)
Urls == { "", "https://example.com/document.pdf" }
\* response.status and response.statusText
Statuses == { << "200", "OK" >>, << "403", "Forbidden" >>, << "404", "Not Found" >> }
\* the message of the TypeError a failed fetch throws, by browser
NetworkErrors ==
    { << "Failed", "to", "fetch" >>,
      << "NetworkError", "when", "attempting", "to", "fetch", "resource." >>,
      << "Load", "failed" >> }

\* String.prototype.includes, on messages kept as sequences of words
Includes(message, part) ==
    \E i \in 1 .. Len(message) - Len(part) + 1 :
        SubSeq(message, i, i + Len(part) - 1) = part

\* the catch of line 358: the user-visible message for error.message
ClassifyUrlError(message) ==
    << "Failed to load PDF from URL." >> \o
    ( IF Includes(message, << "Failed", "to", "fetch" >>)
      THEN << "Could not connect to the URL. This might be due to CORS restrictions. Please try a different URL or contact the website administrator." >>
      ELSE IF Includes(message, << "empty" >>)
      THEN << "The downloaded file is empty. Please check the URL." >>
      ELSE IF Includes(message, << "content-type" >>)
      THEN << "The URL does not point to a PDF file." >>
      ELSE IF Includes(message, << "403" >>)
      THEN << "Access to the PDF was forbidden. The URL might require authentication or the server might be blocking access." >>
      ELSE IF Len(message) > 0 THEN message
      ELSE << "Please check the URL and try again." >> )

\* onChange of the URL field
SetPdfUrl(url) ==
    /\ MayAct
    /\ events' = events - 1
    /\ url # pdfUrl
    /\ pdfUrl' = url
    /\ UNCHANGED << pdfFiles, heap, marketingImages, loading, error, params,
                    canvas, proc, faults, patient, probe >>

\* the Load PDF button, disabled while loading or with an empty URL
HandlePdfUrlSubmit(p) ==
    /\ FreeSlot(p)
    /\ Room(1)
    /\ ~loading
    /\ pdfUrl # ""
    /\ loading' = TRUE
    /\ error' = << >>
    /\ events' = events - 1
    /\ UNCHANGED << faults, patient >>
    /\ proc' = Set(p, Captured([IdleProc EXCEPT !.op = "url", !.pc = "awaitDirect"]))
    /\ UNCHANGED << pdfFiles, heap, marketingImages, pdfUrl, params, canvas, probe >>

\* a plausible slip: a response with an error status retried through the proxy
DirectResponse_RetryOnStatus(p, status) ==
    LET pr == proc[p] IN
    /\ pr.pc = "awaitDirect"
    /\ Turn(p)
    /\ proc' = Set(p, IF status[1] # "200"
                      THEN [pr EXCEPT !.pc = "awaitProxy", !.status = status,
                                      !.proxied = TRUE]
                      ELSE [pr EXCEPT !.pc = "checkResponse", !.status = status])
    /\ UNCHANGED << pdfFiles, heap, marketingImages, loading, error, pdfUrl,
                    params, canvas, budget, probe >>

\* the direct fetch resolves with a response
DirectResponse(p, status) ==
    LET pr == proc[p] IN
    /\ pr.pc = "awaitDirect"
    /\ Turn(p)
    /\ proc' = Set(p, [pr EXCEPT !.pc = "checkResponse", !.status = status])
    /\ UNCHANGED << pdfFiles, heap, marketingImages, loading, error, pdfUrl,
                    params, canvas, budget, probe >>

\* the direct fetch throws: the fetch through corsproxy.io is issued
DirectFailed(p) ==
    LET pr == proc[p] IN
    /\ pr.pc = "awaitDirect"
    /\ Turn(p)
    /\ proc' = Set(p, [pr EXCEPT !.pc = "awaitProxy", !.proxied = TRUE])
    /\ UNCHANGED << pdfFiles, heap, marketingImages, loading, error, pdfUrl,
                    params, canvas, budget, probe >>

\* the proxy fetch resolves with a response
ProxyResponse(p, status) ==
    LET pr == proc[p] IN
    /\ pr.pc = "awaitProxy"
    /\ Turn(p)
    /\ proc' = Set(p, [pr EXCEPT !.pc = "checkResponse", !.status = status])
    /\ UNCHANGED << pdfFiles, heap, marketingImages, loading, error, pdfUrl,
                    params, canvas, budget, probe >>

\* the proxy fetch throws: the outer catch gets its error
ProxyFailed(p, message) ==
    LET pr == proc[p] IN
    /\ pr.pc = "awaitProxy"
    /\ Turn(p)
    /\ proc' = Set(p, [pr EXCEPT !.pc = "urlCatch", !.message = message])
    /\ UNCHANGED << pdfFiles, heap, marketingImages, loading, error, pdfUrl,
                    params, canvas, budget, probe >>

\* if (!response.ok) throw new Error(`Failed to fetch PDF: ...`)
CheckResponse(p) ==
    LET pr == proc[p] IN
    /\ pr.pc = "checkResponse"
    /\ proc' = Set(p,
           IF pr.status[1] # "200"
           THEN [pr EXCEPT !.pc = "urlCatch",
                           !.message = << "Failed", "to", "fetch", "PDF:" >> \o pr.status]
           ELSE [pr EXCEPT !.pc = "awaitBlob"])
    /\ UNCHANGED << pdfFiles, heap, marketingImages, loading, error, pdfUrl,
                    params, canvas, budget, probe >>

\* a plausible slip: the size check left out, the empty blob handed to onDrop
BlobArrived_NoEmptyCheck(p, size) ==
    LET pr == proc[p] IN
    /\ pr.pc = "awaitBlob"
    /\ Turn(p)
    /\ loading' = TRUE
    /\ error' = << >>
    /\ proc' = Set(p, OnDropEntry([pr EXCEPT !.viaUrl = TRUE],
              << [name |-> "downloaded.pdf", type |-> PdfType] >>))
    /\ UNCHANGED << pdfFiles, heap, marketingImages, pdfUrl, params, canvas, budget,
                    probe >>

\* response.blob() resolves: an empty body throws, any other is handed to
\* onDrop as the file 'downloaded.pdf'
BlobArrived(p, size) ==
    LET pr == proc[p] IN
    /\ pr.pc = "awaitBlob"
    /\ Turn(p)
    /\ IF size = 0
       THEN /\ proc' = Set(p, [pr EXCEPT !.pc = "urlCatch",
                      !.message = << "Downloaded", "PDF", "is", "empty" >>])
            /\ UNCHANGED << loading, error >>
       ELSE /\ loading' = TRUE
            /\ error' = << >>
            /\ proc' = Set(p, OnDropEntry([pr EXCEPT !.viaUrl = TRUE],
                      << [name |-> "downloaded.pdf", type |-> PdfType] >>))
    /\ UNCHANGED << pdfFiles, heap, marketingImages, pdfUrl, params, canvas, budget,
                    probe >>

\* catch and finally: setError(errorMessage), setLoading(false)
UrlCatch(p) ==
    LET pr == proc[p] IN
    /\ pr.pc = "urlCatch"
    /\ error' = ClassifyUrlError(pr.message)
    /\ loading' = FALSE
    /\ proc' = Set(p, IdleProc)
    /\ UNCHANGED << pdfFiles, heap, marketingImages, pdfUrl, params, canvas, budget,
                    probe >>

\* after await onDrop([file]): setPdfUrl(''), and finally setLoading(false)
UrlDone(p) ==
    LET pr == proc[p] IN
    /\ pr.pc = "urlDone"
    /\ pdfUrl' = ""
    /\ loading' = FALSE
    /\ proc' = Set(p, IdleProc)
    /\ UNCHANGED << pdfFiles, heap, marketingImages, error, params, canvas, budget,
                    probe >>

(***************************************************************************)
(* The session                                                             *)
(***************************************************************************)
Next ==
    \/ \E p \in Procs, files \in Batches : OnDrop(p, files)
    \/ \E p \in Procs : LoopFile(p)
    \/ \E p \in Procs, numPages \in 1 .. MaxPages :
           \E omitted \in SUBSET (1 .. numPages) : IngestOk(p, numPages, omitted)
    \/ \E p \in Procs : IngestFailed(p)
    \/ \E p \in Procs : AppendFiles(p)
    \/ \E p \in Procs : GenLoop(p)
    \/ \E p \in Procs : BgLoaded(p)
    \/ \E p \in Procs : BgError(p)
    \/ \E p \in Procs : SlotLoop(p)
    \/ \E p \in Procs : PageLoaded(p)
    \/ \E p \in Procs : PageError(p)
    \/ \E p \in Procs : GenReturn(p)
    \/ \E p \in Procs : GenThrow(p)
    \/ \E p \in Procs : Commit(p)
    \/ \E p \in Procs : HandleGenerateImages(p)
    \/ \E pdfIndex \in 1 .. MaxDocs, position \in { "left", "center", "right" },
          pageNum \in 1 .. MaxPages : HandlePageSelection(pdfIndex, position, pageNum)
    \/ \E index \in -1 .. MaxDocs + 1 : RemovePdf(index)
    \/ \E url \in Urls : SetPdfUrl(url)
    \/ \E p \in Procs : HandlePdfUrlSubmit(p)
    \/ \E p \in Procs, status \in Statuses : DirectResponse(p, status)
    \/ \E p \in Procs : DirectFailed(p)
    \/ \E p \in Procs, status \in Statuses : ProxyResponse(p, status)
    \/ \E p \in Procs, message \in NetworkErrors : ProxyFailed(p, message)
    \/ \E p \in Procs : CheckResponse(p)
    \/ \E p \in Procs, size \in 0 .. 1 : BlobArrived(p, size)
    \/ \E p \in Procs : UrlCatch(p)
    \/ \E p \in Procs : UrlDone(p)

Spec == Init /\ [][Next]_vars

SpecPatient == InitPatient /\ [][Next]_vars

(***************************************************************************)
(* The layout parameters: each a Slider paired with a numeric TextField    *)
(***************************************************************************)
\* the numbers a user can enter in a field: Number(e.target.value) of any text
\* the field accepts (the empty field gives 0); min and max of inputProps do
\* not stop onChange
Typed(min, max) == { -1, 0, min, max, max + 1 }

\* Slider onChange: setPageSize(value), the Slider keeping value in min..max
PageSizeSlider(value) ==
    /\ MayAct
    /\ events' = events - 1
    /\ value >= PageSizeMin /\ value <= PageSizeMax
    /\ pageSize' = value
    /\ UNCHANGED << pdfFiles, heap, marketingImages, loading, error, pdfUrl,
                    backgroundImage, tiltAngle, overlap, canvas, proc, faults,
                    patient, probe >>

\* TextField onChange: if (!isNaN(val)) setPageSize(val)
PageSizeInput(val) ==
    /\ MayAct
    /\ events' = events - 1
    /\ pageSize' = val
    /\ UNCHANGED << pdfFiles, heap, marketingImages, loading, error, pdfUrl,
                    backgroundImage, tiltAngle, overlap, canvas, proc, faults,
                    patient, probe >>

\* Slider onChange: setOverlap(value)
OverlapSlider(value) ==
    /\ MayAct
    /\ events' = events - 1
    /\ value >= OverlapMin /\ value <= OverlapMax
    /\ overlap' = value
    /\ UNCHANGED << pdfFiles, heap, marketingImages, loading, error, pdfUrl,
                    backgroundImage, pageSize, tiltAngle, canvas, proc, faults,
                    patient, probe >>

\* TextField onChange: if (!isNaN(val)) setOverlap(val)
OverlapInput(val) ==
    /\ MayAct
    /\ events' = events - 1
    /\ overlap' = val
    /\ UNCHANGED << pdfFiles, heap, marketingImages, loading, error, pdfUrl,
                    backgroundImage, pageSize, tiltAngle, canvas, proc, faults,
                    patient, probe >>

\* Slider onChange: setTiltAngle(value)
TiltAngleSlider(value) ==
    /\ MayAct
    /\ events' = events - 1
    /\ value >= TiltMin /\ value <= TiltMax
    /\ tiltAngle' = value
    /\ UNCHANGED << pdfFiles, heap, marketingImages, loading, error, pdfUrl,
                    backgroundImage, pageSize, overlap, canvas, proc, faults,
                    patient, probe >>

\* TextField onChange: if (!isNaN(val)) setTiltAngle(val)
TiltAngleInput(val) ==
    /\ MayAct
    /\ events' = events - 1
    /\ tiltAngle' = val
    /\ UNCHANGED << pdfFiles, heap, marketingImages, loading, error, pdfUrl,
                    backgroundImage, pageSize, overlap, canvas, proc, faults,
                    patient, probe >>

\* a session of slider moves and field edits
NextLayout ==
    \/ \E value \in { PageSizeMin, DefaultPageSize - 1, PageSizeMax } :
           PageSizeSlider(value)
    \/ \E val \in Typed(PageSizeMin, PageSizeMax) : PageSizeInput(val)
    \/ \E value \in { OverlapMin, DefaultOverlap + 1, OverlapMax } :
           OverlapSlider(value)
    \/ \E val \in Typed(OverlapMin, OverlapMax) : OverlapInput(val)
    \/ \E value \in { TiltMin, DefaultTiltAngle + 1, TiltMax } :
           TiltAngleSlider(value)
    \/ \E val \in Typed(TiltMin, TiltMax) : TiltAngleInput(val)

SpecLayout == InitPatient /\ [][NextLayout]_vars

(***************************************************************************)
(* The background image, and sessions that change what is composed         *)
(***************************************************************************)
\* handleBackgroundUrlSubmit with a URL entered, or reader.onload after a
\* JPEG or PNG was dropped: setBackgroundImage(src)
SetBackgroundImage(src) ==
    /\ MayAct
    /\ events' = events - 1
    /\ backgroundImage' = src
    /\ UNCHANGED << pdfFiles, heap, marketingImages, loading, error, pdfUrl,
                    pageSize, tiltAngle, overlap, canvas, proc, faults, patient,
                    probe >>

\* the session, with changes of the background and of the layout
NextRegenerate ==
    \/ Next
    \/ SetBackgroundImage("uploaded-background")
    \/ PageSizeSlider(PageSizeMin)
    \/ OverlapSlider(OverlapMax)
    \/ TiltAngleSlider(TiltMin)

SpecRegenerate == InitPatient /\ [][NextRegenerate]_vars

(***************************************************************************)
(* handleDownload: the name of the downloaded file, names kept as          *)
(* sequences of characters                                                 *)
(***************************************************************************)
PdfExt == << ".", "p", "d", "f" >>
MarketingSuffix ==
    << "-", "m", "a", "r", "k", "e", "t", "i", "n", "g", ".", "p", "n", "g" >>

\* String.prototype.replace with a string pattern: the first occurrence of
\* pattern is replaced, a string without one is returned as it is
ReplaceFirst(str, pattern, replacement) ==
    LET found == { i \in 1 .. Len(str) - Len(pattern) + 1 :
                     SubSeq(str, i, i + Len(pattern) - 1) = pattern }
    IN  IF found = {} THEN str
        ELSE LET i == CHOOSE x \in found : \A y \in found : x <= y IN
             SubSeq(str, 1, i - 1) \o replacement
                 \o SubSeq(str, i + Len(pattern), Len(str))

\* link.download = `${fileName.replace('.pdf', '')}-marketing.png`
DownloadName(fileName) == ReplaceFirst(fileName, PdfExt, << >>) \o MarketingSuffix

(***************************************************************************)
(* The pure computations, applied to inputs drawn from bounded sets        *)
(***************************************************************************)
Near(x, c) == Abs(x - c) <= LayoutSpan
PageSizeSamples ==
    { x \in PageSizeMin .. PageSizeMax :
        Near(x, PageSizeMin) \/ Near(x, DefaultPageSize) \/ Near(x, PageSizeMax) }
OverlapSamples ==
    { x \in OverlapMin .. OverlapMax :
        Near(x, OverlapMin) \/ Near(x, DefaultOverlap) \/ Near(x, 100)
            \/ Near(x, OverlapMax) }
TiltSamples ==
    { x \in TiltMin .. TiltMax :
        Near(x, TiltMin) \/ Near(x, DefaultTiltAngle) \/ Near(x, TiltMax) }

\* file names ending in '.pdf': a stem of up to MaxNameParts parts, each a
\* letter, a dot or '.pdf' itself, and the extension
MaxNameParts == 3
RECURSIVE Stems(_)
Stems(n) ==
    IF n = 0 THEN { << >> }
    ELSE Stems(n - 1)
         \cup { stem \o part : stem \in Stems(n - 1),
                              part \in { << "r" >>, << "." >>, PdfExt } }
PdfNames == { stem \o PdfExt : stem \in Stems(MaxNameParts) }

PureInputs ==
    [f : {"SlotPositions"}, done : {FALSE}, pageSize : PageSizeSamples,
     tiltAngle : TiltSamples, overlap : OverlapSamples]
    \cup [f : {"BackgroundFit"}, done : {FALSE}, w : 1 .. MaxBgDim, h : 1 .. MaxBgDim]
    \cup UNION { [f : {"DefaultSelection"}, done : {FALSE}, numPages : {n},
                   omitted : SUBSET (1 .. n)] : n \in 1 .. MaxSelPages }
    \cup [f : {"DownloadName"}, done : {FALSE}, fileName : PdfNames]

InitPure ==
    /\ InitState
    /\ events = 0
    /\ faults = 0
    /\ patient = TRUE
    /\ probe \in PureInputs

ApplySlotPositions ==
    /\ probe.f = "SlotPositions"
    /\ ~probe.done
    /\ probe' = [f |-> "SlotPositions", done |-> TRUE, pageSize |-> probe.pageSize,
                 tiltAngle |-> probe.tiltAngle, overlap |-> probe.overlap,
                 positions |-> SlotPositions(probe.pageSize, probe.tiltAngle,
                                             probe.overlap)]
    /\ UNCHANGED << pdfFiles, heap, marketingImages, loading, error, pdfUrl, params,
                    canvas, proc, budget >>

ApplyBackgroundFit ==
    /\ probe.f = "BackgroundFit"
    /\ ~probe.done
    /\ probe' = [f |-> "BackgroundFit", done |-> TRUE, w |-> probe.w, h |-> probe.h,
                 fit |-> BackgroundFit(probe.w, probe.h)]
    /\ UNCHANGED << pdfFiles, heap, marketingImages, loading, error, pdfUrl, params,
                    canvas, proc, budget >>

ApplyDefaultSelection ==
    /\ probe.f = "DefaultSelection"
    /\ ~probe.done
    /\ LET pages == RasterizePages(1, probe.numPages, probe.omitted) IN
       probe' = [f |-> "DefaultSelection", done |-> TRUE, numPages |-> probe.numPages,
                 omitted |-> probe.omitted, pages |-> pages,
                 selectedPages |-> DefaultSelection(pages)]
    /\ UNCHANGED << pdfFiles, heap, marketingImages, loading, error, pdfUrl, params,
                    canvas, proc, budget >>

ApplyDownloadName ==
    /\ probe.f = "DownloadName"
    /\ ~probe.done
    /\ probe' = [f |-> "DownloadName", done |-> TRUE, fileName |-> probe.fileName,
                 download |-> DownloadName(probe.fileName)]
    /\ UNCHANGED << pdfFiles, heap, marketingImages, loading, error, pdfUrl, params,
                    canvas, proc, budget >>

NextPure ==
    \/ ApplySlotPositions
    \/ ApplyBackgroundFit
    \/ ApplyDefaultSelection
    \/ ApplyDownloadName

SpecPure == InitPure /\ [][NextPure]_vars

(***************************************************************************)
(* Claims about the pure computations, under SpecPure                      *)
(***************************************************************************)
Min(a, b) == IF a <= b THEN a ELSE b

\* C2: for pageWidth in [100,600], overlap in [0,300] and tilt in [0,45], the
\* anchors are left (640 - 1.5 pageWidth + overlap, 360 - 0.75 pageWidth),
\* center (640 - pageWidth/2, 360 - 0.75 pageWidth), right (640 + pageWidth/2
\* - overlap, 360 - 0.75 pageWidth), the angles are -tilt, 0 and +tilt degrees
\* (tilt/180 of pi), the center anchor is the one computed with overlap 0, and
\* pageWidth 400, overlap 100, tilt 15 gives (140,60), (440,60), (740,60).
C2_SlotGeometry ==
    (probe.f = "SlotPositions" /\ probe.done) =>
        LET pw == probe.pageSize
            ov == probe.overlap
            t == probe.tiltAngle
            pos == probe.positions
            y == Norm(1440 - 3 * pw, 4)
        IN  /\ pw \in 100 .. 600 /\ ov \in 0 .. 300 /\ t \in 0 .. 45
            /\ pos[1].x = Norm(1280 - 3 * pw + 2 * ov, 2) /\ pos[1].y = y
            /\ pos[2].x = Norm(1280 - pw, 2) /\ pos[2].y = y
            /\ pos[3].x = Norm(1280 + pw - 2 * ov, 2) /\ pos[3].y = y
            /\ pos[1].angle = Norm(-t, 180)
            /\ pos[2].angle = RInt(0)
            /\ pos[3].angle = Norm(t, 180)
            /\ \A other \in OverlapSamples :
                   SlotPositions(pw, t, other)[2] = pos[2]
            /\ (pw = 400 /\ ov = 100 /\ t = 15) =>
                   /\ << pos[1].x, pos[1].y >> = << RInt(140), RInt(60) >>
                   /\ << pos[2].x, pos[2].y >> = << RInt(440), RInt(60) >>
                   /\ << pos[3].x, pos[3].y >> = << RInt(740), RInt(60) >>
                   /\ << pos[1].angle, pos[3].angle >> = << Norm(-15, 180), Norm(15, 180) >>

\* the spec's example has been computed
C2_Witness ==
    /\ probe.f = "SlotPositions" /\ probe.done
    /\ probe.pageSize = 400 /\ probe.overlap = 100 /\ probe.tiltAngle = 15

C4_CoverFitBranches ==
    (probe.f = "BackgroundFit" /\ probe.done) =>
        LET fit == probe.fit
            w == probe.w
            h == probe.h
        IN  IF 9 * w > 16 * h
            THEN /\ fit.drawHeight = RInt(720)
                 /\ fit.drawWidth = Norm(w * 720, h)
                 /\ RGt(fit.drawWidth, RInt(1280))
                 /\ fit.offsetX = Norm(1280 * h - 720 * w, 2 * h)
                 /\ fit.offsetY = RInt(0)
            ELSE /\ fit.drawWidth = RInt(1280)
                 /\ fit.drawHeight = Norm(h * 1280, w)
                 /\ fit.offsetX = RInt(0)
                 /\ fit.offsetY = Norm(720 * w - 1280 * h, 2 * w)

\* a background of exactly 16:9, larger than 16x9, was fitted
C4_Witness ==
    /\ probe.f = "BackgroundFit" /\ probe.done
    /\ 9 * probe.w = 16 * probe.h
    /\ probe.w > 16

\* C5: a document stored with N >= 1 pages gets center = 1, left = min(2, N)
\* and right = 3 if N >= 3, otherwise min(2, N); N is the length of the page
\* list stored with the document.
C5_DefaultSelection ==
    (probe.f = "DefaultSelection" /\ probe.done) =>
        LET N == Len(probe.pages)
            sel == probe.selectedPages
        IN  N >= 1 =>
                /\ sel.center = 1
                /\ sel.left = Min(2, N)
                /\ sel.right = IF N >= 3 THEN 3 ELSE Min(2, N)

\* a document of exactly two stored pages got its default selection
C5_Witness ==
    /\ probe.f = "DefaultSelection" /\ probe.done
    /\ Len(probe.pages) = 2

(***************************************************************************)
(* Claims about the session                                                *)
(***************************************************************************)
\* the place of a draw in the claimed order
Rank(what) ==
    CASE what = "background" -> 0
      [] what = "left" -> 1
      [] what = "right" -> 2
      [] what = "center" -> 3

\* whether the selection of a slot names a page of the document
Selects(pdfFile, position) ==
    /\ pdfFile.selectedPages[position] # NullPage
    /\ \E j \in 1 .. Len(pdfFile.pages) :
           pdfFile.pages[j] = pdfFile.selectedPages[position]

\* the draws of a complete run, given the slots found occupied
ExpectedDraws(pr) ==
    (IF pr.backgroundImage # NULL THEN << "background" >> ELSE << >>)
    \o (IF pr.pageImages[1] # NullPage THEN << "left" >> ELSE << >>)
    \o (IF pr.pageImages[3] # NullPage THEN << "right" >> ELSE << >>)
    \o (IF pr.pageImages[2] # NullPage THEN << "center" >> ELSE << >>)

\* C1: in every run of generateMarketingImage the draws come in the order
\* background, left, right, center; a slot whose selection is null or names
\* no page of the document is skipped (it is found empty when the selection
\* is read), and a run that returns has drawn the background and every
\* occupied slot.
C1_DrawOrder ==
    \A p \in Procs :
        LET pr == proc[p] IN
        pr.pc \in { "awaitBg", "slotLoop", "awaitPage", "genReturn", "genThrow" } =>
            /\ \A i, j \in 1 .. Len(pr.drawn) :
                   i < j => Rank(pr.drawn[i]) < Rank(pr.drawn[j])
            /\ (pr.pc = "slotLoop" /\ pr.slot = 1) =>
                   \A i \in 1 .. 3 :
                       (pr.pageImages[i] # NullPage)
                           <=> Selects(heap[pr.pdfFile], Positions[i])
            /\ pr.pc = "genReturn" => pr.drawn = ExpectedDraws(pr)

\* a run returns having drawn the background and then the center page, a
\* side slot having been skipped because its selection names no page
C1_Witness ==
    \E p \in Procs :
        /\ proc[p].pc = "genReturn"
        /\ proc[p].drawn[1] = "background"
        /\ proc[p].drawn[Len(proc[p].drawn)] = "center"
        /\ \E i \in { 1, 3 } :
               /\ proc[p].pageImages[i] = NullPage
               /\ heap[proc[p].pdfFile].selectedPages[Positions[i]] # NullPage

\* C6: for every document in the list and every slot, the selection is null
\* or the pageNum of a page of that document.
C6_SelectionsValid ==
    \A i \in 1 .. Len(pdfFiles) :
        \A position \in { "left", "center", "right" } :
            \/ heap[pdfFiles[i]].selectedPages[position] = NullPage
            \/ Selects(heap[pdfFiles[i]], position)

\* the step that ends an operation's composition loop: the commit, or the
\* exception leaving handleGenerateImages
RunEnds(p) ==
    \/ proc[p].pc = "commit" /\ proc'[p].pc # "commit"
    \/ proc[p].pc = "genThrow" /\ proc'[p].op = "idle"

\* whether the run's i-th document failed to compose
FailedAt(pr, i) ==
    \/ i <= Len(pr.results) /\ pr.results[i] = "failed"
    \/ pr.pc = "genThrow" /\ i = pr.k

\* C7: when a run of onDrop's auto-generation or of handleGenerateImages
\* ends, a document whose composition failed (and whose name no other
\* document of the run has) has no output recorded by the run, and every
\* other document the run composed has the run's output recorded under its
\* name.
C7_FailureIsolated ==
    [][ \A p \in Procs :
          RunEnds(p) =>
            LET pr == proc[p]
                list == RunList(pr)
            IN  \A i \in 1 .. Len(list) :
                  LET name == heap[list[i]].name IN
                  /\ (FailedAt(pr, i)
                        /\ \A j \in 1 .. Len(list) : j # i => heap[list[j]].name # name)
                     => \/ name \notin DOMAIN marketingImages'
                        \/ /\ name \in DOMAIN marketingImages
                           /\ marketingImages'[name] = marketingImages[name]
                  /\ (~FailedAt(pr, i) /\ i <= Len(pr.results))
                     => /\ name \in DOMAIN marketingImages'
                        /\ marketingImages'[name] = pr.newImages[name]
      ]_vars

\* C8: once no operation is in flight any more, whether the operations
\* succeeded or failed, the loading flag is false again.
C8_LoadingReturnsFalse ==
    (\A p \in Procs : proc[p].op = "idle") => ~loading

\* the names of the files of a batch that were ingested, in batch order
IngestedNames(pr) ==
    LET F[n \in 0 .. Len(pr.acceptedFiles)] ==
            IF n = 0 THEN << >>
            ELSE IF n <= Len(pr.outcome) /\ pr.outcome[n] = "ok"
                 THEN Append(F[n - 1], pr.acceptedFiles[n].name)
                 ELSE F[n - 1]
    IN  F[Len(pr.acceptedFiles)]

\* C9: when onDrop appends its batch, every file of the batch has been tried
\* (a file that is no PDF or fails to decode ends only its own ingestion),
\* and the list grows by exactly the files that decoded, in batch order.
C9_BatchIndependent ==
    [][ \A p \in Procs :
          (proc[p].pc = "append" /\ proc'[p].pc # "append") =>
            LET pr == proc[p]
                added == SubSeq(pdfFiles', Len(pdfFiles) + 1, Len(pdfFiles'))
            IN  /\ Len(pr.outcome) = Len(pr.acceptedFiles)
                /\ \A i \in 1 .. Len(pr.acceptedFiles) :
                       pr.acceptedFiles[i].type # PdfType => pr.outcome[i] = "notPdf"
                /\ SubSeq(pdfFiles', 1, Len(pdfFiles)) = pdfFiles
                /\ [j \in 1 .. Len(added) |-> heap[added[j]].name] = IngestedNames(pr)
      ]_vars

\* a batch whose first file failed and whose second file decoded has been
\* appended
C9_Witness ==
    \E p \in Procs :
        /\ proc[p].pc = "genLoop"
        /\ proc[p].op = "onDrop"
        /\ proc[p].outcome \in { << "failed", "ok" >>, << "notPdf", "ok" >> }
        /\ \E i \in 1 .. Len(pdfFiles) : pdfFiles[i] = proc[p].newPdfFiles[1]

\* C10: removePdf(i) with a valid i removes exactly document i and deletes
\* the output keyed by its file name, every other key keeping its output;
\* with i negative or not below the list's length it changes neither the
\* list nor the outputs.
C10_RemovePdf ==
    [][ \A index \in -1 .. MaxDocs + 1 :
          RemovePdf(index) =>
            IF index >= 0 /\ index < Len(pdfFiles)
            THEN LET name == heap[pdfFiles[index + 1]].name IN
                 /\ pdfFiles' = SubSeq(pdfFiles, 1, index)
                                    \o SubSeq(pdfFiles, index + 2, Len(pdfFiles))
                 /\ DOMAIN marketingImages' = (DOMAIN marketingImages) \ {name}
                 /\ \A n \in DOMAIN marketingImages' :
                        marketingImages'[n] = marketingImages[n]
            ELSE /\ pdfFiles' = pdfFiles
                 /\ marketingImages' = marketingImages
      ]_vars

\* a document that had an output has been removed, with its output, while
\* another document keeps its own
C10_Witness ==
    /\ \A p \in Procs : proc[p].op = "idle"
    /\ \E d \in 1 .. Len(heap) :
           /\ \A i \in 1 .. Len(pdfFiles) : pdfFiles[i] # d
           /\ heap[d].name \notin DOMAIN marketingImages
    /\ \E i \in 1 .. Len(pdfFiles) : heap[pdfFiles[i]].name \in DOMAIN marketingImages
    /\ error = << >>

\* the step in which handleGenerateImages completes: setMarketingImages and
\* setLoading(false) at lines 287-288
GenerateCompletes(p) ==
    /\ proc[p].op = "generate"
    /\ proc[p].pc = "commit"
    /\ proc'[p].pc # "commit"

\* C11: when handleGenerateImages completes without error, the output map
\* holds exactly one entry for each document of the list: every document's
\* name is a key, and there are as many keys as documents (so no two
\* documents share an entry).
C11_OneOutputPerDocument ==
    [][ \A p \in Procs :
          GenerateCompletes(p) =>
            /\ \A i \in 1 .. Len(pdfFiles') :
                   heap[pdfFiles'[i]].name \in DOMAIN marketingImages'
            /\ Cardinality(DOMAIN marketingImages') = Len(pdfFiles')
      ]_vars

\* C12: when the fetch of handlePdfUrlSubmit returns a response with status
\* 403, the message shown to the user is the access-forbidden one.
C12_ForbiddenMessage ==
    [][ \A p \in Procs :
          ( /\ proc[p].pc = "urlCatch"
            /\ proc[p].message = << "Failed", "to", "fetch", "PDF:", "403", "Forbidden" >>
            /\ proc'[p].pc # "urlCatch" )
          => error' = << "Failed to load PDF from URL.",
                         "Access to the PDF was forbidden. The URL might require authentication or the server might be blocking access." >>
      ]_vars

\* C13: when the fetch returns a success status with a zero-length body, the
\* run goes to its catch without entering onDrop (no ingestion is attempted
\* and no document is created or listed), and the message shown to the user
\* is the empty-payload one.
C13_EmptyBody ==
    [][ \A p \in Procs :
          /\ BlobArrived(p, 0) =>
                /\ proc'[p].pc = "urlCatch"
                /\ proc'[p].acceptedFiles = << >>
                /\ pdfFiles' = pdfFiles /\ heap' = heap
          /\ ( /\ proc[p].pc = "urlCatch"
               /\ proc[p].message = << "Downloaded", "PDF", "is", "empty" >>
               /\ proc'[p].pc # "urlCatch" )
             => /\ error' = << "Failed to load PDF from URL.",
                               "The downloaded file is empty. Please check the URL." >>
                /\ proc'[p].op = "idle"
                /\ pdfFiles' = pdfFiles /\ heap' = heap
      ]_vars

\* a URL load has ended on an empty body: the empty-payload message is shown,
\* nothing is in flight and no document exists
C13_Witness ==
    /\ error = << "Failed to load PDF from URL.",
                  "The downloaded file is empty. Please check the URL." >>
    /\ \A p \in Procs : proc[p].op = "idle"
    /\ ~loading
    /\ heap = << >>
    /\ pdfFiles = << >>

\* C14: in a run of handlePdfUrlSubmit the direct fetch is issued once, at
\* the start; the proxy fetch is issued at most once, and only when the
\* direct fetch threw (no response was received); a response with a
\* non-success status, direct or proxied, sends the run to its catch, as does
\* a proxy fetch that throws; and the catch ends the run with an error
\* message, no fetch being issued again.
C14_ProxyOnce ==
    [][ \A p \in Procs :
          LET pr == proc[p]
              nx == proc'[p]
          IN  /\ (nx.pc = "awaitDirect" /\ pr.pc # "awaitDirect") => pr.op = "idle"
              /\ (nx.pc = "awaitProxy" /\ pr.pc # "awaitProxy")
                 => /\ pr.pc = "awaitDirect"
                    /\ ~pr.proxied /\ nx.proxied
                    /\ nx.status = << >>
              /\ (pr.pc = "awaitProxy" /\ nx # pr)
                 => nx.pc \in { "checkResponse", "urlCatch" }
              /\ (pr.pc = "checkResponse" /\ nx # pr /\ pr.status[1] # "200")
                 => nx.pc = "urlCatch"
              /\ (pr.pc = "urlCatch" /\ nx # pr)
                 => /\ nx.op = "idle"
                    /\ error' # << >>
                    /\ ~loading'
      ]_vars

\* the direct fetch threw, the proxy fetch was issued and threw as well, and
\* the run is in its catch
C14_Witness ==
    \E p \in Procs :
        /\ proc[p].pc = "urlCatch"
        /\ proc[p].proxied
        /\ proc[p].message \in NetworkErrors

\* C15: in every state the layout parameters are within their bounds:
\* 100 <= pageSize <= 600, 0 <= overlap <= 300, 0 <= tiltAngle <= 45.
C15_ParamsInBounds ==
    /\ pageSize >= PageSizeMin /\ pageSize <= PageSizeMax
    /\ overlap >= OverlapMin /\ overlap <= OverlapMax
    /\ tiltAngle >= TiltMin /\ tiltAngle <= TiltMax

\* C16: while a run of generateMarketingImage is suspended at the decode wait
\* of the background, before it has read the selection, no step changes the
\* document record the run holds: the run draws the pages selected when it
\* started.
C16_NoInPlaceMutation ==
    [][ \A p \in Procs :
          proc[p].pc = "awaitBg" => heap'[proc[p].pdfFile] = heap[proc[p].pdfFile]
      ]_vars

\* the draws of a run on a canvas of its own: the background, then the pages
\* of the occupied slots, left, right, center, each with the run's arguments
OwnDraws(pr) ==
    (IF pr.backgroundImage # NULL THEN << BackgroundDraw(pr) >> ELSE << >>)
    \o (IF pr.pageImages[1] # NullPage THEN << PageDraw(pr, 1) >> ELSE << >>)
    \o (IF pr.pageImages[3] # NullPage THEN << PageDraw(pr, 3) >> ELSE << >>)
    \o (IF pr.pageImages[2] # NullPage THEN << PageDraw(pr, 2) >> ELSE << >>)

\* a run composing document d from the present selections, background and
\* layout parameters
RunOn(d) ==
    [IdleProc EXCEPT !.backgroundImage = backgroundImage, !.pageSize = pageSize,
                     !.tiltAngle = tiltAngle, !.overlap = overlap,
                     !.pdfFile = d, !.pageImages = PageImages(heap[d])]

\* the output map determined by the list, the selections, the background and
\* the layout parameters: each document's draws under its file name
OutputsOf(list) ==
    LET F[n \in 0 .. Len(list)] ==
            IF n = 0 THEN << >>
            ELSE Put(F[n - 1], heap[list[n]].name, << OwnDraws(RunOn(list[n])) >>)
    IN  F[Len(list)]

\* C17: with no other event during the run, the output map that
\* handleGenerateImages records when it completes is determined by the
\* document list, the selections, the background and the layout parameters
\* alone (for every document the same draws with the same arguments, whatever
\* was composed or recorded before): a second run on unchanged inputs records
\* the same map, and leaves the map as the first run left it.
C17_Idempotent ==
    [][ \A p \in Procs :
          GenerateCompletes(p) =>
            /\ marketingImages' = OutputsOf(pdfFiles)
            /\ marketingImages = OutputsOf(pdfFiles) => marketingImages' = marketingImages
      ]_vars

\* the second of two Generate runs in a row is about to record the very map
\* the first recorded: the document was dropped, its automatic composition
\* failed (the message is still shown, the map was empty), and only a
\* Generate run can have recorded its output since
C17_Witness ==
    \E p \in Procs :
        /\ proc[p].op = "generate"
        /\ proc[p].pc = "commit"
        /\ events = 0
        /\ error = << "Failed to generate marketing image for", "a.pdf" >>
        /\ pdfUrl = ""
        /\ Len(pdfFiles) = 1
        /\ heap[pdfFiles[1]].name = "a.pdf"
        /\ marketingImages = proc[p].newImages
        /\ DOMAIN marketingImages = { "a.pdf" }

\* C18: for every document name ending in '.pdf', the download name is the
\* name with that trailing '.pdf' replaced by '-marketing.png', the characters
\* before it unchanged.
C18_DownloadName ==
    (probe.f = "DownloadName" /\ probe.done) =>
        probe.download =
            SubSeq(probe.fileName, 1, Len(probe.fileName) - Len(PdfExt))
                \o MarketingSuffix

\* C19: at every quiescent state (no operation in flight) each key of the
\* output map is the file name of a document of the list: an output removed
\* with its document is not recorded again by a run that was in flight.
C19_NoOutputForRemoved ==
    (\A p \in Procs : proc[p].op = "idle") =>
        \A name \in DOMAIN marketingImages :
            \E i \in 1 .. Len(pdfFiles) : heap[pdfFiles[i]].name = name

\* C20: the output a run of generateMarketingImage returns consists of
\* exactly the run's own draws, the background and the pages of its occupied
\* slots with its own arguments, also when another run overlaps it in time.
C20_CanvasIsolated ==
    \A p \in Procs :
        proc[p].pc = "genReturn" => proc[p].imageUrl = << OwnDraws(proc[p]) >>

\* C21: removePdf(i) with a valid i leaves every other document in the list,
\* in the same relative order and with the same selection, and leaves the
\* output entry of every document that remains in the list as it was, also
\* when a remaining document has the file name of the removed one.
C21_RemovePdfFrame ==
    [][ \A index \in 0 .. MaxDocs - 1 :
          (RemovePdf(index) /\ index < Len(pdfFiles)) =>
            /\ pdfFiles' = SubSeq(pdfFiles, 1, index)
                               \o SubSeq(pdfFiles, index + 2, Len(pdfFiles))
            /\ \A i \in 1 .. Len(pdfFiles') :
                   LET name == heap[pdfFiles'[i]].name IN
                   /\ heap'[pdfFiles'[i]] = heap[pdfFiles'[i]]
                   /\ (name \in DOMAIN marketingImages') = (name \in DOMAIN marketingImages)
                   /\ name \in DOMAIN marketingImages
                      => marketingImages'[name] = marketingImages[name]
      ]_vars

\* C22: in every state the user can observe (no continuation pending) in
\* which an ingestion, a URL load or a generation is still in flight, the
\* loading flag is true, also when several operations overlap.
C22_LoadingWhileInFlight ==
    (Quiet /\ \E p \in Procs : proc[p].op # "idle") => loading

====
